---------------------------- MODULE Spec2Model ----------------------------
(***************************************************************************)
(* A model of app/services/inpainting_service.py: the InpaintingService    *)
(* (construction, remove_object, remove_multiple_objects), the lazy        *)
(* module-level accessor get_inpainting_service, and the mask dilation of  *)
(* the removal flow.                                                       *)
(*                                                                         *)
(* Representation.  A Python str is a sequence of atoms; an atom stands    *)
(* for a run of characters ("cat", ", and ", "/", "result_") and inputs    *)
(* are tokenised so that no atom is the concatenation of others, hence two *)
(* strings are equal iff their atom sequences are.  None and the other     *)
(* Python values that share a variable with it are tagged records.  The    *)
(* file system is a function from path strings to file contents whose      *)
(* DOMAIN is the set of existing files.                                    *)
(***************************************************************************)
EXTENDS Integers, Sequences, FiniteSets, TLC

VARIABLES
    \* ---- InpaintingService and one caller at a time ----
    environ,        \* os.environ.get("FAL_KEY")
    constructed,    \* InpaintingService.__init__ has run
    fal_key,        \* self.fal_key
    warned,         \* __init__ printed the "FAL_KEY not found" warning
    files,          \* the file system
    files0,         \* the file system when the current call was made
    pc,             \* position of the current call
    call,           \* the current call: function and arguments
    object_name,    \* remove_object's parameter object_name
    output_path,    \* remove_object's parameter/local output_path
    image_url,      \* local of remove_object
    mask_url,       \* local of remove_object
    prompt,         \* local of remove_object
    result,         \* handler.get()
    response,       \* requests.get(result_url)
    submitted,      \* the arguments of each fal_client.submit of this call
    trace,          \* the I/O operations of this call, in order, with outcome
    ret,            \* what the call returned
    err,            \* the exception the call raised
    ncalls,         \* calls made so far
    \* ---- get_inpainting_service and its callers ----
    g_service,      \* the global _inpainting_service
    heap,           \* the InpaintingService objects constructed so far
    tpc,            \* each caller's position in get_inpainting_service
    tlocal,         \* each caller's object under construction
    tret,           \* what each caller's last call returned
    \* ---- mask dilation ----
    d_mask,         \* the mask M
    d_radius,       \* radius_pixels
    d_out,          \* dilate(M, r)
    d_pc

svcVars == <<environ, constructed, fal_key, warned, files, files0, pc, call,
             object_name, output_path, image_url, mask_url, prompt, result,
             response, submitted, trace, ret, err, ncalls>>
getVars == <<g_service, heap, tpc, tlocal, tret>>
dilVars == <<d_mask, d_radius, d_out, d_pc>>
vars == <<svcVars, getVars, dilVars>>

----------------------------------------------------------------------------
(* Bounds *)

MaxNames == 3     \* longest object_names list
MaxCalls == 2     \* calls of remove_object / remove_multiple_objects
NThreads == 3     \* concurrent callers of get_inpainting_service
MaxW == 2         \* widest mask
MaxH == 2         \* tallest mask
MaxR == 2         \* largest dilation radius

----------------------------------------------------------------------------
(* Python values *)

PyNone == [t |-> "None"]
PyStr(s) == [t |-> "str", v |-> s]

\* bool(x) for x a str or None
Truthy(x) == x.t = "str" /\ x.v # <<>>

\* a or b
PyOr(a, b) == IF Truthy(a) THEN a ELSE b

\* sep.join(strs)
RECURSIVE join(_, _)
join(sep, strs) ==
    IF strs = <<>> THEN <<>>
    ELSE IF Len(strs) = 1 THEN strs[1]
    ELSE strs[1] \o sep \o join(sep, Tail(strs))

\* s[:-1]
AllButLast(s) == SubSeq(s, 1, Len(s) - 1)

\* base64.b64encode(data).decode('utf-8') on the file contents of the model
b64encode(data) ==
    CASE data = "IMG" -> "SU1H"
      [] data = "MSK" -> "TVNL"
      [] data = "RES" -> "UkVT"
      [] data = ""    -> ""

\* f"data:image/png;base64,{b64}"
DataUrl(b64) == <<"data:image/png;base64,", b64>>

----------------------------------------------------------------------------
(* pathlib *)

\* Path(s): the components of s between "/" atoms, "" and "." dropped
RECURSIVE SplitPath(_, _, _)
SplitPath(s, cur, acc) ==
    LET flush == IF cur = <<>> \/ cur = <<".">> THEN acc ELSE Append(acc, cur)
    IN  IF s = <<>> THEN flush
        ELSE IF Head(s) = "/" THEN SplitPath(Tail(s), <<>>, flush)
        ELSE SplitPath(Tail(s), Append(cur, Head(s)), acc)

Path(s) == SplitPath(s, <<>>, <<>>)

\* p.name
PathName(p) == IF p = <<>> THEN <<>> ELSE p[Len(p)]

\* p.parent
PathParent(p) == IF p = <<>> THEN <<>> ELSE AllButLast(p)

\* p / name
PathJoin(p, name) == IF name = <<>> THEN p ELSE Append(p, name)

\* str(p)
PathStr(p) == IF p = <<>> THEN <<".">> ELSE join(<<"/">>, p)

----------------------------------------------------------------------------
(* InpaintingService *)

HARDCODED_API_KEY == <<>>

\* (variant: the test written as "self.fal_key is None")
KeyMissingIsNone(key) == key = PyNone

\* not self.fal_key
KeyMissing(key) == ~Truthy(key)

\* (variant: the last name joined by " and " without the comma)
object_desc_no_comma(object_names) ==
    IF Len(object_names) = 1 THEN object_names[1]
    ELSE join(<<", ">>, AllButLast(object_names))
           \o <<" and ">> \o object_names[Len(object_names)]

\* the combined prompt of remove_multiple_objects for the lists it formats
object_desc(object_names) ==
    IF Len(object_names) = 1 THEN object_names[1]
    ELSE IF Len(object_names) = 2
         THEN object_names[1] \o <<" and ">> \o object_names[2]
    ELSE join(<<", ">>, AllButLast(object_names))
           \o <<", and ">> \o object_names[Len(object_names)]

\* (variant: an empty list formatted as the default name instead of raising)
FormatNamesDefault(object_names) ==
    IF Len(object_names) = 0
    THEN [raised |-> FALSE, value |-> <<"object">>]
    ELSE [raised |-> FALSE, value |-> object_desc(object_names)]

\* lines 161-166 as a whole: object_names[-1] raises IndexError on []
FormatNames(object_names) ==
    IF Len(object_names) = 0
    THEN [raised |-> TRUE, exc |-> "IndexError: list index out of range"]
    ELSE [raised |-> FALSE, value |-> object_desc(object_names)]

\* prompt = f"remove {object_name} from the image"
Prompt(name) == <<"remove ">> \o name \o <<" from the image">>

\* (variant: the "mask_url" entry of the arguments not commented out)
SubmitArgumentsWithMask(p, img_url, msk_url) ==
    [prompt |-> p,
     image_url |-> img_url,
     mask_url |-> msk_url,
     num_inference_steps |-> 28,
     guidance_scale |-> "3.5",
     output_format |-> "png",
     seed |-> PyNone]

\* the arguments of fal_client.submit; the mask_url entry is commented out
SubmitArguments(p, img_url, msk_url) ==
    [prompt |-> p,
     image_url |-> img_url,
     num_inference_steps |-> 28,
     guidance_scale |-> "3.5",
     output_format |-> "png",
     seed |-> PyNone]

\* result and 'images' in result and len(result['images']) > 0
HasImages(res) ==
    /\ res # PyNone
    /\ DOMAIN res # {}
    /\ "images" \in DOMAIN res
    /\ Len(res.images) > 0

\* (variant: the status of the download not tested)
DownloadOkAlways(resp) == TRUE

\* response.status_code == 200
DownloadOk(resp) == resp.status_code = 200

\* (variant: the result_ name not joined to the image's directory)
DefaultOutputPathCwd(image_path) ==
    PathStr(<<(<<"result_">> \o PathName(Path(image_path)))>>)

\* (variant: the name not prefixed)
DefaultOutputPathSame(image_path) ==
    PathStr(PathJoin(PathParent(Path(image_path)), PathName(Path(image_path))))

\* str(image_path_obj.parent / f"result_{image_path_obj.name}")
DefaultOutputPath(image_path) ==
    PathStr(PathJoin(PathParent(Path(image_path)),
                     <<"result_">> \o PathName(Path(image_path))))

\* dict.get with a default
DictGet(d, k, default) == IF k \in DOMAIN d THEN d[k] ELSE default

\* the result_info record
ResultInfo(p, name, out, res) ==
    [success |-> TRUE,
     prompt |-> p,
     object_removed |-> name,
     output_path |-> out,
     seed |-> DictGet(res, "seed", PyNone),
     inference_time |-> DictGet(DictGet(res, "timings", [none |-> 0]),
                                "inference", 0)]


----------------------------------------------------------------------------
(* The callers' inputs and the collaborators' answers *)

Names == {<<"cat">>, <<"dog">>, <<"bird">>}
NameLists == UNION {[1..n -> Names] : n \in 0..MaxNames}
ObjectNames == Names \cup {<<"object">>}

ImagePaths == {<<"d", "/", "a.png">>, <<"a.png">>, <<"d", "/", "zz.png">>}
MaskPaths == {<<"d", "/", "m.png">>, <<"d", "/", "result_", "a.png">>}
OutputPaths == {PyNone, PyStr(<<"d", "/", "out.png">>)}

InitialFiles ==
    [p \in {<<"d", "/", "a.png">>, <<"a.png">>, <<"d", "/", "m.png">>,
            <<"d", "/", "result_", "a.png">>} |->
        IF p \in {<<"d", "/", "a.png">>, <<"a.png">>} THEN "IMG" ELSE "MSK"]

Environs == {PyNone, PyStr(<<>>), PyStr(<<"fal-key">>)}

Results ==
    {PyNone,
     [seed |-> 7],
     [images |-> <<>>],
     [images |-> <<[content_type |-> "image/png"]>>],
     [images |-> <<[url |-> "https://fal.media/files/r1.png"]>>],
     [images |-> <<[url |-> "https://fal.media/files/r1.png"]>>,
      seed |-> 7, timings |-> [inference |-> 2]]}

Responses == [status_code : {200, 404}, content : {"RES"}]

NoErr == [exc |-> "none", line |-> 0]
NoRet == [path |-> <<>>]
NoCall == [fn |-> "none"]
NoResponse == [status_code |-> 0]

----------------------------------------------------------------------------
(* State changes shared by the steps *)

Event(op, ok) == [op |-> op, ok |-> ok]

\* open(path, 'wb') followed by f.write(data)
WriteFile(fs, path, data) ==
    [p \in DOMAIN fs \cup {path} |-> IF p = path THEN data ELSE fs[p]]

\* (variant: the except block prints and does not re-raise)
Swallow(exc, line) ==
    /\ pc' = "returned"
    /\ err' = err

\* an exception leaves remove_object through the except block, which re-raises
Raise(exc, line) ==
    /\ pc' = "raised"
    /\ err' = [exc |-> exc, line |-> line]

----------------------------------------------------------------------------
(* InpaintingService.__init__ *)

Construct ==
    /\ ~constructed
    /\ constructed' = TRUE
    /\ fal_key' = PyOr(PyStr(HARDCODED_API_KEY), environ)
    /\ warned' = KeyMissing(fal_key')
    /\ UNCHANGED <<environ, files, files0, pc, call, object_name, output_path,
                   image_url, mask_url, prompt, result, response, submitted,
                   trace, ret, err, ncalls>>

(* A caller invokes remove_object *)
CallRemoveObject(ip, mp, name, op) ==
    /\ constructed /\ pc = "idle" /\ ncalls < MaxCalls
    /\ ncalls' = ncalls + 1
    /\ call' = [fn |-> "remove_object", image_path |-> ip, mask_path |-> mp,
                object_names |-> <<>>, output_path |-> op]
    /\ files0' = files
    /\ object_name' = name
    /\ output_path' = op
    /\ pc' = "check_key"
    /\ UNCHANGED <<environ, constructed, fal_key, warned, files, image_url,
                   mask_url, prompt, result, response, submitted, trace, ret,
                   err>>

(* A caller invokes remove_multiple_objects: lines 160-168 *)
CallRemoveMultipleObjects(ip, mp, names, op) ==
    /\ constructed /\ pc = "idle" /\ ncalls < MaxCalls
    /\ ncalls' = ncalls + 1
    /\ call' = [fn |-> "remove_multiple_objects", image_path |-> ip,
                mask_path |-> mp, object_names |-> names, output_path |-> op]
    /\ files0' = files
    /\ LET f == FormatNames(names)
       IN  IF f.raised
           THEN /\ pc' = "raised"
                /\ err' = [exc |-> f.exc, line |-> 166]
                /\ UNCHANGED <<object_name, output_path>>
           ELSE /\ pc' = "check_key"
                /\ object_name' = f.value
                /\ output_path' = op
                /\ err' = err
    /\ UNCHANGED <<environ, constructed, fal_key, warned, files, image_url,
                   mask_url, prompt, result, response, submitted, trace, ret>>

(* remove_object, lines 57-58 *)
CheckKey ==
    /\ pc = "check_key"
    /\ IF KeyMissing(fal_key)
       THEN Raise("Exception: FAL_KEY not set. Please set your FAL API key.", 58)
       ELSE pc' = "read_image" /\ err' = err
    /\ UNCHANGED <<environ, constructed, fal_key, warned, files, files0, call,
                   object_name, output_path, image_url, mask_url, prompt,
                   result, response, submitted, trace, ret, ncalls>>

(* remove_object, lines 65-69 *)
ReadImage ==
    /\ pc = "read_image"
    /\ IF call.image_path \in DOMAIN files
       THEN /\ image_url' = DataUrl(b64encode(files[call.image_path]))
            /\ trace' = Append(trace, Event("read_image", TRUE))
            /\ pc' = "read_mask"
            /\ err' = err
       ELSE /\ image_url' = image_url
            /\ trace' = Append(trace, Event("read_image", FALSE))
            /\ Raise("FileNotFoundError", 66)
    /\ UNCHANGED <<environ, constructed, fal_key, warned, files, files0, call,
                   object_name, output_path, mask_url, prompt, result,
                   response, submitted, ret, ncalls>>

(* remove_object, lines 71-75 *)
ReadMask ==
    /\ pc = "read_mask"
    /\ IF call.mask_path \in DOMAIN files
       THEN /\ mask_url' = DataUrl(b64encode(files[call.mask_path]))
            /\ trace' = Append(trace, Event("read_mask", TRUE))
            /\ pc' = "submit"
            /\ err' = err
       ELSE /\ mask_url' = mask_url
            /\ trace' = Append(trace, Event("read_mask", FALSE))
            /\ Raise("FileNotFoundError", 72)
    /\ UNCHANGED <<environ, constructed, fal_key, warned, files, files0, call,
                   object_name, output_path, image_url, prompt, result,
                   response, submitted, ret, ncalls>>

(* remove_object, lines 77-95: the prompt and fal_client.submit *)
Submit ==
    /\ pc = "submit"
    /\ prompt' = Prompt(object_name)
    /\ \E ok \in BOOLEAN :
         /\ trace' = Append(trace, Event("submit", ok))
         /\ IF ok
            THEN /\ submitted' = Append(submitted,
                        SubmitArguments(prompt', image_url, mask_url))
                 /\ pc' = "get"
                 /\ err' = err
            ELSE /\ submitted' = submitted
                 /\ Raise("fal_client error", 84)
    /\ UNCHANGED <<environ, constructed, fal_key, warned, files, files0, call,
                   object_name, output_path, image_url, mask_url, result,
                   response, ret, ncalls>>

(* remove_object, lines 97-104 and 132-133: handler.get() and its result *)
GetResult ==
    /\ pc = "get"
    /\ \/ /\ trace' = Append(trace, Event("get", FALSE))
          /\ result' = result
          /\ Raise("fal_client error", 98)
       \/ \E res \in Results :
            /\ trace' = Append(trace, Event("get", TRUE))
            /\ result' = res
            /\ IF HasImages(res)
               THEN IF "url" \in DOMAIN res.images[1]
                    THEN pc' = "download" /\ err' = err
                    ELSE Raise("KeyError: 'url'", 104)
               ELSE Raise("Exception: No images in result", 133)
    /\ UNCHANGED <<environ, constructed, fal_key, warned, files, files0, call,
                   object_name, output_path, image_url, mask_url, prompt,
                   response, submitted, ret, ncalls>>

(* remove_object, lines 106-108 and 130-131: requests.get and its status *)
Download ==
    /\ pc = "download"
    /\ \/ /\ trace' = Append(trace, Event("download", FALSE))
          /\ response' = response
          /\ Raise("requests error", 107)
       \/ \E resp \in Responses :
            /\ trace' = Append(trace, Event("download", TRUE))
            /\ response' = resp
            /\ IF DownloadOk(resp)
               THEN pc' = "save" /\ err' = err
               ELSE Raise("Exception: Failed to download result image", 131)
    /\ UNCHANGED <<environ, constructed, fal_key, warned, files, files0, call,
                   object_name, output_path, image_url, mask_url, prompt,
                   result, submitted, ret, ncalls>>

(* remove_object, lines 109-129: the output path, the write, the return *)
SaveResult ==
    /\ pc = "save"
    /\ output_path' = IF output_path = PyNone
                      THEN PyStr(DefaultOutputPath(call.image_path))
                      ELSE output_path
    /\ \/ \* open(output_path, 'wb') fails
          /\ trace' = Append(trace, Event("open_output", FALSE))
          /\ files' = files
          /\ ret' = ret
          /\ Raise("OSError", 115)
       \/ \* the file is opened (created or truncated) and f.write fails
          /\ trace' = trace \o <<Event("open_output", TRUE), Event("write", FALSE)>>
          /\ files' = WriteFile(files, output_path'.v, "")
          /\ ret' = ret
          /\ Raise("OSError", 116)
       \/ /\ trace' = trace \o <<Event("open_output", TRUE), Event("write", TRUE)>>
          /\ files' = WriteFile(files, output_path'.v, response.content)
          /\ ret' = [path |-> output_path'.v,
                     info |-> ResultInfo(prompt, object_name, output_path'.v, result)]
          /\ pc' = "returned"
          /\ err' = err
    /\ UNCHANGED <<environ, constructed, fal_key, warned, files0, call,
                   object_name, image_url, mask_url, prompt, result, response,
                   submitted, ncalls>>

(* The caller has the return value or the exception; the frame is gone *)
Finish ==
    /\ pc \in {"returned", "raised"}
    /\ pc' = "idle"
    /\ call' = NoCall
    /\ files0' = files
    /\ object_name' = <<>>
    /\ output_path' = PyNone
    /\ image_url' = <<>>
    /\ mask_url' = <<>>
    /\ prompt' = <<>>
    /\ result' = PyNone
    /\ response' = NoResponse
    /\ submitted' = <<>>
    /\ trace' = <<>>
    /\ ret' = NoRet
    /\ err' = NoErr
    /\ UNCHANGED <<environ, constructed, fal_key, warned, files, ncalls>>

----------------------------------------------------------------------------
(* get_inpainting_service, called from request handlers that run in        *)
(* threads: the interpreter may switch threads between the test of the     *)
(* global, the construction (which prints), the store and the final load.  *)

Threads == 1..NThreads

PyObj(id) == [t |-> "obj", id |-> id]

\* _inpainting_service is None
IsNone(x) == x = PyNone

\* line 179
GetTest(t) ==
    /\ tpc[t] = "idle"
    /\ tpc' = [tpc EXCEPT ![t] = IF IsNone(g_service) THEN "construct" ELSE "return"]
    /\ UNCHANGED <<g_service, heap, tlocal, tret>>

\* line 180, right-hand side: InpaintingService()
GetConstruct(t) ==
    /\ tpc[t] = "construct"
    /\ heap' = Append(heap, [fal_key |-> PyOr(PyStr(HARDCODED_API_KEY), environ)])
    /\ tlocal' = [tlocal EXCEPT ![t] = PyObj(Len(heap'))]
    /\ tpc' = [tpc EXCEPT ![t] = "store"]
    /\ UNCHANGED <<g_service, tret>>

\* line 180, the assignment to the global
GetStore(t) ==
    /\ tpc[t] = "store"
    /\ g_service' = tlocal[t]
    /\ tlocal' = [tlocal EXCEPT ![t] = PyNone]
    /\ tpc' = [tpc EXCEPT ![t] = "return"]
    /\ UNCHANGED <<heap, tret>>

\* line 181: return _inpainting_service
GetReturn(t) ==
    /\ tpc[t] = "return"
    /\ tret' = [tret EXCEPT ![t] = g_service]
    /\ tpc' = [tpc EXCEPT ![t] = "idle"]
    /\ UNCHANGED <<g_service, heap, tlocal>>

----------------------------------------------------------------------------
(* Mask dilation: dilate(mask, radius_pixels).  A mask is a grid of        *)
(* intensities, non-zero marking the region to remove.                     *)

Intensities == {0, 128, 255}

Pixels(w, h) == (1..w) \X (1..h)

Masks == UNION {[w : {w}, h : {h}, px : [Pixels(w, h) -> Intensities]]
                  : <<w, h>> \in (1..MaxW) \X (1..MaxH)}

\* (variant: a neighbourhood without its centre)
DiskNoCentre(r) ==
    {o \in (-r..r) \X (-r..r) :
        o # <<0, 0>> /\ o[1] * o[1] + o[2] * o[2] <= r * r}

\* the disk-shaped structuring neighbourhood, bounding box 2r+1
Disk(r) == {o \in (-r..r) \X (-r..r) : o[1] * o[1] + o[2] * o[2] <= r * r}

SetMax(S) == CHOOSE m \in S : \A x \in S : x <= m

\* one pass of grayscale dilation, zero outside the image
Dilate(M, r) ==
    [w |-> M.w, h |-> M.h,
     px |-> [p \in Pixels(M.w, M.h) |->
               SetMax({0} \cup
                      {M.px[q] : q \in {q \in Pixels(M.w, M.h) :
                                   <<q[1] - p[1], q[2] - p[2]>> \in Disk(r)}})]]

DilateStep ==
    /\ d_pc = "start" /\ d_radius >= 0
    /\ d_out' = Dilate(d_mask, d_radius)
    /\ d_pc' = "done"
    /\ UNCHANGED <<d_mask, d_radius>>

\* a negative radius is rejected with InvalidInput
DilateReject ==
    /\ d_pc = "start" /\ d_radius < 0
    /\ d_pc' = "InvalidInput"
    /\ UNCHANGED <<d_mask, d_radius, d_out>>

----------------------------------------------------------------------------
(* Specifications *)

SvcParked ==
    /\ constructed = FALSE /\ fal_key = PyNone /\ warned = FALSE
    /\ files = InitialFiles /\ files0 = InitialFiles
    /\ pc = "idle" /\ call = NoCall
    /\ object_name = <<>> /\ output_path = PyNone
    /\ image_url = <<>> /\ mask_url = <<>> /\ prompt = <<>>
    /\ result = PyNone /\ response = NoResponse
    /\ submitted = <<>> /\ trace = <<>>
    /\ ret = NoRet /\ err = NoErr /\ ncalls = 0

GetParked ==
    /\ g_service = PyNone /\ heap = <<>>
    /\ tpc = [t \in Threads |-> "idle"]
    /\ tlocal = [t \in Threads |-> PyNone]
    /\ tret = [t \in Threads |-> PyNone]

DilParked ==
    /\ d_mask = [w |-> 1, h |-> 1, px |-> [p \in Pixels(1, 1) |-> 0]]
    /\ d_radius = 0 /\ d_out = d_mask /\ d_pc = "parked"

(* The service and its callers, one call at a time *)
Init == environ \in Environs /\ SvcParked /\ GetParked /\ DilParked

Next ==
    \/ Construct /\ UNCHANGED <<getVars, dilVars>>
    \/ \E ip \in ImagePaths, mp \in MaskPaths, name \in ObjectNames, op \in OutputPaths :
         CallRemoveObject(ip, mp, name, op) /\ UNCHANGED <<getVars, dilVars>>
    \/ \E ip \in ImagePaths, mp \in MaskPaths, names \in NameLists, op \in OutputPaths :
         CallRemoveMultipleObjects(ip, mp, names, op) /\ UNCHANGED <<getVars, dilVars>>
    \/ CheckKey /\ UNCHANGED <<getVars, dilVars>>
    \/ ReadImage /\ UNCHANGED <<getVars, dilVars>>
    \/ ReadMask /\ UNCHANGED <<getVars, dilVars>>
    \/ Submit /\ UNCHANGED <<getVars, dilVars>>
    \/ GetResult /\ UNCHANGED <<getVars, dilVars>>
    \/ Download /\ UNCHANGED <<getVars, dilVars>>
    \/ SaveResult /\ UNCHANGED <<getVars, dilVars>>
    \/ Finish /\ UNCHANGED <<getVars, dilVars>>

Spec == Init /\ [][Next]_vars

(* Concurrent callers of get_inpainting_service *)
InitGet == environ \in Environs /\ SvcParked /\ GetParked /\ DilParked

NextGet ==
    \/ \E t \in Threads : GetTest(t) /\ UNCHANGED <<svcVars, dilVars>>
    \/ \E t \in Threads : GetConstruct(t) /\ UNCHANGED <<svcVars, dilVars>>
    \/ \E t \in Threads : GetStore(t) /\ UNCHANGED <<svcVars, dilVars>>
    \/ \E t \in Threads : GetReturn(t) /\ UNCHANGED <<svcVars, dilVars>>

SpecGet == InitGet /\ [][NextGet]_vars

(* dilate on every mask and radius of the bounds *)
InitDilate ==
    /\ environ = PyNone /\ SvcParked /\ GetParked
    /\ d_mask \in Masks
    /\ d_radius \in -1..MaxR
    /\ d_out = d_mask
    /\ d_pc = "start"

NextDilate ==
    \/ DilateStep /\ UNCHANGED <<svcVars, getVars>>
    \/ DilateReject /\ UNCHANGED <<svcVars, getVars>>

SpecDilate == InitDilate /\ [][NextDilate]_vars

----------------------------------------------------------------------------
(* Vocabulary of the properties *)

\* The error taxonomy of the specification, read onto the places that raise:
\* the formatter's rejection of its input, the credential test, the rest.
ErrorKind(e) ==
    CASE e.line = 166 -> "InvalidInput"
      [] e.line = 58  -> "MissingCredential"
      [] e.line = 0   -> "none"
      [] OTHER        -> "ProviderError"

\* no hardcoded key, and FAL_KEY absent or empty
NoCredential ==
    /\ HARDCODED_API_KEY = <<>>
    /\ environ = PyNone \/ environ = PyStr(<<>>)

InCall == pc # "idle"

\* the operations of the call so far, without their outcomes
Ops == [i \in 1..Len(trace) |-> trace[i].op]

Count(op) == Cardinality({i \in 1..Len(trace) : trace[i].op = op})

Happened(op) == \E i \in 1..Len(trace) : trace[i].op = op /\ trace[i].ok

IsPrefix(a, b) == Len(a) <= Len(b) /\ a = SubSeq(b, 1, Len(a))

\* position of the last "/" of a path string, 0 when it has none
LastSlash(s) ==
    IF \E i \in 1..Len(s) : s[i] = "/"
    THEN CHOOSE i \in 1..Len(s) :
            s[i] = "/" /\ \A j \in (i + 1)..Len(s) : s[j] # "/"
    ELSE 0

\* "result_" + <file name> in the directory of the image, on the path string
ResultSibling(s) ==
    SubSeq(s, 1, LastSlash(s)) \o <<"result_">> \o SubSeq(s, LastSlash(s) + 1, Len(s))

\* every file but those at the given paths is as it was when the call was made
UnchangedExcept(paths) ==
    /\ DOMAIN files0 \subseteq DOMAIN files
    /\ DOMAIN files \subseteq DOMAIN files0 \cup paths
    /\ \A p \in DOMAIN files0 \ paths : files[p] = files0[p]

----------------------------------------------------------------------------
(* C1: for a non-empty list of names remove_multiple_objects enters         *)
(* remove_object with a description made of the names in their order, one   *)
(* separator between neighbours: none for one name, " and " for two, and    *)
(* for three or more ", " everywhere but ", and " before the last.          *)
C1_Description ==
    (InCall /\ call.fn = "remove_multiple_objects" /\ call.object_names # <<>>) =>
        LET names == call.object_names
            n == Len(names)
        IN  /\ ErrorKind(err) # "InvalidInput"
            /\ Len(object_name) = 2 * n - 1
            /\ \A i \in 1..n : <<object_name[2 * i - 1]>> = names[i]
            /\ \A i \in 1..(n - 1) :
                 object_name[2 * i] =
                    IF n = 2 THEN " and "
                    ELSE IF i = n - 1 THEN ", and " ELSE ", "

C1_Witness ==
    /\ pc = "check_key"
    /\ call.fn = "remove_multiple_objects"
    /\ call.object_names = <<(<<"cat">>), (<<"dog">>), (<<"bird">>)>>
    /\ object_name = <<"cat", ", ", "dog", ", and ", "bird">>

(* C2: remove_multiple_objects with an empty list fails in the formatter,   *)
(* with the error of an invalid input, before remove_object is entered: no  *)
(* file is read, nothing is submitted, no file is written.                  *)
C2_EmptyListRejected ==
    (InCall /\ call.fn = "remove_multiple_objects" /\ call.object_names = <<>>) =>
        /\ pc = "raised"
        /\ ErrorKind(err) = "InvalidInput"
        /\ trace = <<>>
        /\ submitted = <<>>
        /\ files = files0
        /\ ret = NoRet

C2_Witness ==
    /\ pc = "raised"
    /\ call.fn = "remove_multiple_objects"
    /\ call.object_names = <<>>
    /\ err.line = 166
    /\ Truthy(fal_key)

(* C3, as claimed: with no credential every call of remove_object or of     *)
(* remove_multiple_objects fails with MissingCredential.                    *)
C3_Original ==
    (constructed /\ NoCredential /\ pc \notin {"idle", "check_key"}) =>
        /\ pc = "raised"
        /\ ErrorKind(err) = "MissingCredential"

(* C3, amended: with no credential the construction succeeds with the       *)
(* warning, and every call fails before any file is read, any request is   *)
(* made and any file is written: with MissingCredential, except that        *)
(* remove_multiple_objects with an empty list fails in the formatter first. *)
C3_NoCredential ==
    (constructed /\ NoCredential) =>
        /\ warned
        /\ pc \in {"idle", "check_key", "raised"}
        /\ pc = "raised" =>
             ErrorKind(err) =
                IF call.fn = "remove_multiple_objects" /\ call.object_names = <<>>
                THEN "InvalidInput" ELSE "MissingCredential"
        /\ trace = <<>>
        /\ submitted = <<>>
        /\ files = files0
        /\ ret = NoRet

C3_Witness ==
    /\ constructed /\ NoCredential /\ warned
    /\ pc = "raised"
    /\ call.fn = "remove_multiple_objects"
    /\ err.line = 58

(* C4, as claimed: the provider is invoked only after the mask has been     *)
(* dilated, with the image and the dilated mask in the request.             *)
C4_Original ==
    submitted # <<>> =>
        /\ \E i, j \in 1..Len(trace) :
             i < j /\ trace[i].op = "dilate_mask" /\ trace[j].op = "submit"
        /\ "image_url" \in DOMAIN submitted[1]
        /\ "mask_url" \in DOMAIN submitted[1]

(* C4, amended: a request formats the description, reads the image, reads   *)
(* the mask, invokes the provider and persists the image, in this order;    *)
(* the mask is not dilated, and the invocation carries the prompt and the   *)
(* original image bytes and no mask.                                        *)
C4_Order ==
    /\ IsPrefix(Ops, <<"read_image", "read_mask", "submit", "get", "download",
                       "open_output", "write">>)
    /\ (trace # <<>> /\ call.fn = "remove_multiple_objects") =>
          object_name = object_desc(call.object_names)
    /\ submitted # <<>> =>
          /\ Len(submitted) = 1
          /\ submitted[1].prompt = <<"remove ">> \o object_name \o <<" from the image">>
          /\ submitted[1].image_url =
                <<"data:image/png;base64,", b64encode(files0[call.image_path])>>
          /\ "mask_url" \notin DOMAIN submitted[1]

C4_Witness ==
    /\ pc = "returned"
    /\ call.fn = "remove_multiple_objects"
    /\ Len(call.object_names) = 2
    /\ Ops = <<"read_image", "read_mask", "submit", "get", "download",
               "open_output", "write">>
    /\ submitted[1].image_url = <<"data:image/png;base64,", "SU1H">>

(* C5: on success the image bytes are at one path, the one returned and     *)
(* recorded: output_path when given, else "result_" + the image's file name *)
(* in the image's directory; no other file is written.                      *)
C5_OutputPath ==
    pc = "returned" =>
        LET expected == IF call.output_path # PyNone
                        THEN call.output_path.v
                        ELSE ResultSibling(call.image_path)
        IN  /\ ret.path = expected
            /\ ret.info.output_path = expected
            /\ ret.info.success
            /\ expected \in DOMAIN files
            /\ files[expected] = response.content
            /\ UnchangedExcept({expected})

C5_Witness ==
    /\ pc = "returned"
    /\ call.output_path = PyNone
    /\ call.image_path = <<"d", "/", "a.png">>
    /\ ret.path = <<"d", "/", "result_", "a.png">>
    /\ files[ret.path] = "RES"

(* C6: a call submits at most once and downloads at most once, and a        *)
(* failure (no credential, a file not read, the provider failing, a result  *)
(* without images, a download that is not 200) ends it with an error and    *)
(* no return value.                                                         *)
C6_Failure ==
    \/ pc \notin {"idle", "check_key"} /\ ~Truthy(fal_key)
    \/ \E i \in 1..Len(trace) : ~trace[i].ok
    \/ Happened("get") /\ (result = PyNone \/ "images" \notin DOMAIN result
                            \/ result.images = <<>>)
    \/ response # NoResponse /\ response.status_code # 200

C6_NoRetry ==
    /\ Count("submit") <= 1
    /\ Count("get") <= 1
    /\ Count("download") <= 1
    /\ Len(submitted) <= 1
    /\ C6_Failure => (pc = "raised" /\ ret = NoRet)
    /\ pc = "raised" => ret = NoRet
    /\ ret # NoRet => pc = "returned"

C6_Witness ==
    /\ pc = "raised"
    /\ Happened("submit") /\ Happened("get") /\ Happened("download")
    /\ response.status_code = 404
    /\ ret = NoRet

(* C9: the output file is opened only after the provider's result with an   *)
(* image has arrived and its download has answered 200; a call that has not *)
(* come that far has changed no file.                                       *)
C9_WriteLast ==
    /\ Count("open_output") > 0 =>
          /\ Happened("submit") /\ Happened("get") /\ Happened("download")
          /\ "images" \in DOMAIN result /\ Len(result.images) > 0
          /\ response.status_code = 200
    /\ Count("open_output") = 0 => files = files0
    /\ (pc = "raised" /\ err.line \notin {115, 116}) => files = files0

C9_Witness ==
    /\ pc = "raised"
    /\ response # NoResponse /\ response.status_code = 404
    /\ Count("open_output") = 0
    /\ files = files0

(* C10, as claimed: with output_path omitted the files at image_path and    *)
(* at mask_path are after the call as they were before it.                  *)
C10_Original ==
    (InCall /\ call.output_path = PyNone) =>
        \A p \in {call.image_path, call.mask_path} \cap DOMAIN files0 :
            p \in DOMAIN files /\ files[p] = files0[p]

(* C10, amended: with output_path omitted the file at image_path is never   *)
(* changed, and the file at mask_path is changed only when mask_path is the *)
(* derived path, "result_" + the image's file name beside the image.        *)
C10_InputsKept ==
    (InCall /\ call.output_path = PyNone) =>
        /\ ResultSibling(call.image_path) # call.image_path
        /\ call.image_path \in DOMAIN files0 =>
             /\ call.image_path \in DOMAIN files
             /\ files[call.image_path] = files0[call.image_path]
        /\ call.mask_path # ResultSibling(call.image_path) =>
             /\ call.mask_path \in DOMAIN files
             /\ files[call.mask_path] = files0[call.mask_path]
        /\ UnchangedExcept({ResultSibling(call.image_path)})

C10_Witness ==
    /\ pc = "returned"
    /\ call.output_path = PyNone
    /\ call.mask_path = <<"d", "/", "m.png">>
    /\ call.image_path = <<"d", "/", "a.png">>
    /\ files # files0
    /\ files[call.mask_path] = "MSK" /\ files[call.image_path] = "IMG"

(* C7: InpaintingService is constructed at most once and every call of      *)
(* get_inpainting_service returns the same instance, also when the callers  *)
(* run concurrently.                                                        *)
C7_Singleton ==
    /\ Len(heap) <= 1
    /\ \A t, u \in Threads :
         (tret[t] # PyNone /\ tret[u] # PyNone) => tret[t] = tret[u]

(* C8: for a mask M and a radius r >= 0, dilate(M, r) has the dimensions of *)
(* M and every pixel set in M is set in it.                                 *)
C8_Superset ==
    d_pc = "done" =>
        /\ d_out.w = d_mask.w /\ d_out.h = d_mask.h
        /\ DOMAIN d_out.px = DOMAIN d_mask.px
        /\ \A p \in DOMAIN d_mask.px : d_mask.px[p] # 0 => d_out.px[p] # 0

C8_Witness ==
    /\ d_pc = "done" /\ d_radius >= 1
    /\ \E p \in DOMAIN d_mask.px : d_mask.px[p] # 0
    /\ \E q \in DOMAIN d_mask.px : d_mask.px[q] = 0 /\ d_out.px[q] # 0

=============================================================================
